---- MODULE Spec2Model ----
(***************************************************************************)
(* Speech Playback Controller of src/src/App.tsx.                          *)
(*                                                                         *)
(* The file holds two versions of the App component: variant A (lines      *)
(* 17-639, local engine + cloud backend, settle delay, per-utterance       *)
(* keep-alive timer, autoplay-blocked handling) and variant B (lines       *)
(* 659-953, local engine only, utteranceRef, retrying voice load,          *)
(* keep-alive interval).  One behaviour of the model is one page lifetime  *)
(* of one variant; the variant is fixed in Init.                           *)
(*                                                                         *)
(* The platform (window.speechSynthesis) is the environment: a queue of    *)
(* utterances, the speaking / paused attributes, and the events it         *)
(* dispatches to the utterance's handlers.  Events caused by cancel() are  *)
(* dispatched asynchronously, so they sit in engine.events until the       *)
(* event loop delivers them.                                               *)
(*                                                                         *)
(* Spec is the local-engine path of both variants, SpecVoices the voice    *)
(* loading over every voice list, SpecCloud variant A with its settings    *)
(* panel and the cloud backend, SpecLive is Spec with fair timers and a    *)
(* fair engine.                                                            *)
(*                                                                         *)
(* Taken as given: speech synthesis is supported (lines 39-41, 100-103);   *)
(* the state updates of one handler are rendered, and the effects they     *)
(* trigger run, before the next handler starts; platform calls do not      *)
(* throw.  The initialisation kick of variant A (lines 53-83: an empty     *)
(* utterance spoken and cancelled at mount) and the rate and pitch         *)
(* settings are left out.                                                  *)
(***************************************************************************)
EXTENDS Integers, Sequences, FiniteSets, TLC

(***************************************************************************)
(* Bounds of the model.                                                    *)
(***************************************************************************)
MaxUtterances == 2
MaxCloudCalls == 1
MaxVoices == 4

(***************************************************************************)
(* Values.  A text and a voice name are sequences of characters.           *)
(***************************************************************************)
Null == <<"null">>

Whitespace == {" "}

\* what the user types into the textbox: nothing, blanks, a speakable text
Texts == { <<>>, <<" ", " ">>, <<" ", "a">> }

\* the decoded ?text= parameter of the page URL (Null: no parameter)
UrlTexts == { Null, <<"u">> }

\* Voice names.  "m" stands for "microsoft", "z" for " zira"; capitals are
\* the same words in upper case; the other letters are other words.
VoiceNames == { <<"a">>, <<"M", "z">>, <<"m", "d">>, <<"g", "m", "Z">>, <<"c">> }

Lower(c) == CASE c = "M" -> "m" [] c = "Z" -> "z" [] OTHER -> c

ToLowerCase(s) == [i \in 1..Len(s) |-> Lower(s[i])]

\* String.prototype.includes
Includes(s, sub) ==
  \E i \in 0..(Len(s) - Len(sub)) : SubSeq(s, i + 1, i + Len(sub)) = sub

RECURSIVE TrimStart(_)
TrimStart(s) ==
  IF s /= <<>> /\ Head(s) \in Whitespace THEN TrimStart(Tail(s)) ELSE s

RECURSIVE TrimEnd(_)
TrimEnd(s) ==
  IF s /= <<>> /\ s[Len(s)] \in Whitespace
  THEN TrimEnd(SubSeq(s, 1, Len(s) - 1)) ELSE s

\* String.prototype.trim
Trim(s) == TrimEnd(TrimStart(s))

\* mutant: the guard without trim()
IsBlank_NoTrim(t) == t = <<>>

\* line 106 / line 775: textToSpeak.trim() === ""
IsBlank(t) == Trim(t) = <<>>

(***************************************************************************)
(* Voice list ordering and default voice (loadVoices).                     *)
(***************************************************************************)
\* the preferred-voice marker: "microsoft zira" (A), "microsoft" (B)
Marker(v) == IF v = "A" THEN <<"m", "z">> ELSE <<"m">>

\* a.name.toLowerCase().includes(marker)
IsPreferred(name, marker) == Includes(ToLowerCase(name), marker)

\* mutant: the comparator without toLowerCase()
CompareVoices_CaseSensitive(a, b, marker) ==
  IF Includes(a, marker) /\ ~Includes(b, marker) THEN -1
  ELSE IF ~Includes(a, marker) /\ Includes(b, marker) THEN 1
  ELSE 0

\* lines 212-220 (A), 701-708 (B): the comparator handed to
\* Array.prototype.sort
CompareVoices(a, b, marker) ==
  IF IsPreferred(a, marker) /\ ~IsPreferred(b, marker) THEN -1
  ELSE IF ~IsPreferred(a, marker) /\ IsPreferred(b, marker) THEN 1
  ELSE 0

\* Array.prototype.sort is a stable sort: x goes behind every element that
\* does not compare greater than it.
RECURSIVE InsertVoice(_, _, _)
InsertVoice(x, s, marker) ==
  IF s = <<>> THEN <<x>>
  ELSE IF CompareVoices(x, Head(s), marker) < 0 THEN <<x>> \o s
  ELSE <<Head(s)>> \o InsertVoice(x, Tail(s), marker)

RECURSIVE SortFrom(_, _, _)
SortFrom(done, rest, marker) ==
  IF rest = <<>> THEN done
  ELSE SortFrom(InsertVoice(Head(rest), done, marker), Tail(rest), marker)

\* [...voices].sort(comparator)
SortVoices(voices, marker) == SortFrom(<<>>, voices, marker)

\* sortedVoices.find(voice => preferred), Null when there is none
RECURSIVE FindPreferred(_, _)
FindPreferred(s, marker) ==
  IF s = <<>> THEN Null
  ELSE IF IsPreferred(Head(s), marker) THEN Head(s)
  ELSE FindPreferred(Tail(s), marker)

\* The settings.voice that loadVoices of variant A reads: the effect has no
\* dependencies, so its closure is the one of the first render, where
\* settings.voice is null.
LoadVoicesSeenVoice == Null

\* mutant: loadVoices (A) without the fallback to the first voice
DefaultVoiceA_NoFallback(sorted, seen, cur) ==
  LET zira == FindPreferred(sorted, Marker("A")) IN
  IF zira /= Null /\ (seen = Null \/ ~IsPreferred(seen, Marker("A"))) THEN zira
  ELSE cur

\* lines 229-238: the voice loadVoices (A) selects; cur is kept when neither
\* branch is taken
DefaultVoiceA(sorted, seen, cur) ==
  LET zira == FindPreferred(sorted, Marker("A")) IN
  IF zira /= Null /\ (seen = Null \/ ~IsPreferred(seen, Marker("A"))) THEN zira
  ELSE IF Len(sorted) > 0 /\ seen = Null THEN sorted[1]
  ELSE cur

\* lines 713-721: the voice loadVoices (B) selects
DefaultVoiceB(sorted, cur) ==
  LET ms == FindPreferred(sorted, Marker("B")) IN
  IF ms /= Null THEN ms
  ELSE IF Len(sorted) > 0 THEN sorted[1]
  ELSE cur

(***************************************************************************)
(* State.                                                                  *)
(***************************************************************************)
VARIABLES
  variant,            \* "A" or "B": which App this page runs
  phase,              \* "new" (rendered, effects not run), "mounted", "unmounted"
  urlText,            \* decoded ?text= parameter, Null when absent
  platformVoices,     \* the voices the platform has once they are loaded
  dirVoices,          \* what speechSynthesis.getVoices() returns now
  text,               \* useState text (the textbox)
  availableVoices,    \* useState availableVoices
  voice,              \* settings.voice, Null when none
  isPlaying,          \* useState isPlaying
  autoSpeechBlocked,  \* A: useState autoSpeechBlocked
  textFromUrl,        \* A: textFromUrl.current
  hasSpokenFromUrl,   \* A: hasSpokenFromUrl.current
  useAzure,           \* A: useState useAzure
  azureConfig,        \* A: [key, region]: is the field non-empty
  speakAzureConfig,   \* A: the azureConfig the memoized speak closes over
  showSettings,       \* A: useState showSettings
  cloudCalls,         \* A: speakTextAsync calls not settled yet
  utteranceRef,       \* B: utteranceRef.current (utterance id, 0 for null)
  voicesLoadedRef,    \* B: voicesLoadedRef.current
  voiceInitializedRef,\* B: voiceInitializedRef.current
  autoplayTextRef,    \* B: autoplayTextRef.current
  retryCount,         \* B: retryCount of the voice-loading effect
  retryTimers,        \* B: pending setTimeout(loadVoices, 100)
  intervalOn,         \* B: the keep-alive setInterval is running
  utts,               \* the SpeechSynthesisUtterances created: [text, auto]
  settleQ,            \* A: pending settle-delay timers, by utterance, in order
  keepQ,              \* A: pending restartSpeech timers, by utterance, in order
  autoTimer,          \* the pending auto-speak timer and the speak it captured
  engine,             \* window.speechSynthesis: [queue, started, paused, events]
  last                \* history: the handler that ran last, the engine calls
                      \* it made, isPlaying and autoSpeechBlocked when it
                      \* started

vars == << variant, phase, urlText, platformVoices, dirVoices, text,
           availableVoices, voice, isPlaying, autoSpeechBlocked, textFromUrl,
           hasSpokenFromUrl, useAzure, azureConfig, speakAzureConfig,
           showSettings, cloudCalls, utteranceRef, voicesLoadedRef,
           voiceInitializedRef, autoplayTextRef, retryCount, retryTimers,
           intervalOn, utts, settleQ, keepQ, autoTimer, engine, last >>

envVars   == << variant, urlText, platformVoices >>
selVars   == << availableVoices, voice >>
loadVars  == << voicesLoadedRef, voiceInitializedRef, retryCount, retryTimers >>
autoVars  == << hasSpokenFromUrl, autoplayTextRef, autoTimer >>
cfgVars   == << useAzure, azureConfig, speakAzureConfig >>

\* the controller state a handler starts from, kept in last.pre
Snapshot == [ isPlaying |-> isPlaying, blocked |-> autoSpeechBlocked ]

Did(op, uid, err, t, calls) ==
  [ op |-> op, uid |-> uid, err |-> err, text |-> t, calls |-> calls,
    pre |-> Snapshot ]

NoTimer ==
  [ on |-> FALSE, text |-> Null, cloud |-> FALSE,
    config |-> [key |-> FALSE, region |-> FALSE], voice |-> Null ]

\* a state setter of an unmounted component does nothing
SetState(new, old) == IF phase = "unmounted" THEN old ELSE new

(***************************************************************************)
(* The platform's synthesis engine.                                        *)
(***************************************************************************)
\* speechSynthesis.speaking: an utterance has begun and not completed
Speaking(e) == e.started

\* the error events cancel() makes the engine dispatch: "interrupted" for
\* the utterance being spoken, "canceled" for those still queued
CancelEvents(e) ==
  [ i \in 1..Len(e.queue) |->
      [ uid |-> e.queue[i],
        error |-> IF i = 1 /\ e.started THEN "interrupted" ELSE "canceled" ] ]

\* speechSynthesis.cancel()
EngCancel(e) ==
  [ e EXCEPT !.queue = <<>>, !.started = FALSE,
             !.events = e.events \o CancelEvents(e) ]

\* speechSynthesis.speak(utterance)
EngSpeak(e, u) == [ e EXCEPT !.queue = Append(@, u) ]

\* speechSynthesis.pause() / resume()
EngPause(e) == [ e EXCEPT !.paused = TRUE ]
EngResume(e) == [ e EXCEPT !.paused = FALSE ]

\* B, lines 753-772: the effect on [isPlaying] stops the interval of the
\* previous render and starts one when isPlaying is true
KeepAliveEffect(newPlaying) ==
  IF variant = "B" /\ newPlaying /= isPlaying THEN newPlaying ELSE intervalOn

(***************************************************************************)
(* speak.                                                                  *)
(***************************************************************************)
maxRetries == 50

\* a JavaScript string used as a condition: neither null nor ""
Truthy(t) == t /= Null /\ t /= <<>>

\* !azureConfig.key || !azureConfig.region is false
ConfigOK(c) == c.key /\ c.region

\* A, lines 297-311: speakWithAzure up to the await.  config is the
\* azureConfig of the render whose speakWithAzure the caller's speak holds.
SpeakWithAzure(op, t, config) ==
  IF ~ConfigOK(config)
  THEN /\ showSettings' = SetState(TRUE, showSettings)
       /\ last' = Did(op, 0, "alert-configure", t, <<>>)
       /\ UNCHANGED << isPlaying, cloudCalls >>
  ELSE /\ cloudCalls < MaxCloudCalls
       /\ isPlaying' = SetState(TRUE, isPlaying)
       /\ cloudCalls' = cloudCalls + 1
       /\ last' = Did(op, 0, "synthesize", t, <<>>)
       /\ UNCHANGED showSettings

\* A, lines 99-203 (speech synthesis supported): the local path of speak
SpeakLocalA(op, t, auto) ==
  IF IsBlank(t)
  THEN /\ last' = Did(op, 0, "", t, <<>>)
       /\ UNCHANGED << utts, engine, settleQ >>
  ELSE LET u == Len(utts) + 1
           cancelled == EngCancel(engine)
       IN /\ Len(utts) < MaxUtterances
          /\ utts' = Append(utts, [text |-> t, auto |-> auto])
          /\ engine' = IF cancelled.paused THEN EngResume(cancelled) ELSE cancelled
          /\ settleQ' = Append(settleQ, u)
          /\ last' = Did(op, u, "", t,
                         IF cancelled.paused THEN <<"cancel", "resume">>
                         ELSE <<"cancel">>)

\* A, lines 92-206: speak as the closure `sees` it: [cloud, config]
SpeakA(op, t, auto, sees) ==
  /\ IF sees.cloud
     THEN /\ SpeakWithAzure(op, t, sees.config)
          /\ UNCHANGED << utts, engine, settleQ >>
     ELSE /\ SpeakLocalA(op, t, auto)
          /\ UNCHANGED << isPlaying, showSettings, cloudCalls >>
  /\ UNCHANGED << utteranceRef, intervalOn, keepQ, autoSpeechBlocked, textFromUrl >>

\* B, lines 774-804: speak; v is the settings.voice its closure holds
SpeakB(op, t, auto, v) ==
  /\ IF IsBlank(t) \/ v = Null
     THEN /\ last' = Did(op, 0, "", t, <<>>)
          /\ UNCHANGED << utts, engine, utteranceRef >>
     ELSE LET u == Len(utts) + 1 IN
          /\ Len(utts) < MaxUtterances
          /\ utts' = Append(utts, [text |-> t, auto |-> auto])
          /\ utteranceRef' = u
          /\ engine' = EngSpeak(EngCancel(engine), u)
          /\ last' = Did(op, u, "", t, <<"cancel", "speak">>)
  /\ UNCHANGED << isPlaying, intervalOn, settleQ, keepQ, showSettings, cloudCalls,
                  autoSpeechBlocked, textFromUrl >>

\* the speak of the current render, called from a handler of that render
Speak(op, t) ==
  IF variant = "A"
  THEN SpeakA(op, t, FALSE, [cloud |-> useAzure, config |-> speakAzureConfig])
  ELSE SpeakB(op, t, FALSE, voice)

(***************************************************************************)
(* The utterance's event handlers.                                         *)
(***************************************************************************)
RemoveTimer(q, u) == SelectSeq(q, LAMBDA x : x /= u)

\* mutant: onstart clears the blocked flag but does not set isPlaying
HandleStart_NoPlaying(u) ==
  /\ autoSpeechBlocked' =
       IF variant = "A" THEN SetState(FALSE, autoSpeechBlocked) ELSE autoSpeechBlocked
  /\ UNCHANGED << isPlaying, textFromUrl, utteranceRef, keepQ >>

\* A, lines 127-132; B, line 791
HandleStart(u) ==
  /\ isPlaying' = SetState(TRUE, isPlaying)
  /\ autoSpeechBlocked' =
       IF variant = "A" THEN SetState(FALSE, autoSpeechBlocked) ELSE autoSpeechBlocked
  /\ UNCHANGED << textFromUrl, utteranceRef, keepQ >>

\* mutant: onend clears its timer but leaves isPlaying as it is
HandleEnd_StaysPlaying(u) ==
  /\ keepQ' = RemoveTimer(keepQ, u)
  /\ utteranceRef' = IF variant = "B" THEN 0 ELSE utteranceRef
  /\ UNCHANGED << isPlaying, autoSpeechBlocked, textFromUrl >>

\* A, lines 150-156; B, lines 792-795
HandleEnd(u) ==
  /\ isPlaying' = SetState(FALSE, isPlaying)
  /\ keepQ' = RemoveTimer(keepQ, u)
  /\ utteranceRef' = IF variant = "B" THEN 0 ELSE utteranceRef
  /\ UNCHANGED << autoSpeechBlocked, textFromUrl >>

\* mutant: onerror retains the text but does not raise the blocked flag
HandleError_NoFlag(u, kind) ==
  /\ isPlaying' = SetState(FALSE, isPlaying)
  /\ keepQ' = RemoveTimer(keepQ, u)
  /\ utteranceRef' = IF variant = "B" THEN 0 ELSE utteranceRef
  /\ textFromUrl' = IF variant = "A" /\ kind = "not-allowed"
                    THEN utts[u].text ELSE textFromUrl
  /\ UNCHANGED autoSpeechBlocked

\* mutant: onerror treats every error kind as not-allowed
HandleError_AnyKind(u, kind) ==
  /\ isPlaying' = SetState(FALSE, isPlaying)
  /\ keepQ' = RemoveTimer(keepQ, u)
  /\ utteranceRef' = IF variant = "B" THEN 0 ELSE utteranceRef
  /\ IF variant = "A"
     THEN /\ autoSpeechBlocked' = SetState(TRUE, autoSpeechBlocked)
          /\ textFromUrl' = utts[u].text
     ELSE UNCHANGED << autoSpeechBlocked, textFromUrl >>

\* A, lines 159-176 with handleNotAllowedError, lines 86-90; B, lines 796-800
HandleError(u, kind) ==
  /\ isPlaying' = SetState(FALSE, isPlaying)
  /\ keepQ' = RemoveTimer(keepQ, u)
  /\ utteranceRef' = IF variant = "B" THEN 0 ELSE utteranceRef
  /\ IF variant = "A" /\ kind = "not-allowed"
     THEN /\ autoSpeechBlocked' = SetState(TRUE, autoSpeechBlocked)
          /\ textFromUrl' = utts[u].text
     ELSE UNCHANGED << autoSpeechBlocked, textFromUrl >>

(***************************************************************************)
(* Voice loading.                                                          *)
(***************************************************************************)
\* mutant: the URL effect without its one-shot flag
AlreadySpoken_Never == FALSE

\* A, line 260: hasSpokenFromUrl.current
AlreadySpoken == hasSpokenFromUrl

\* A, lines 209-239 (loadVoices) and the effect on [availableVoices], lines
\* 256-295, that the new list triggers.  The timer keeps the speak of the
\* render that scheduled it.
LoadVoicesA(op, voices) ==
  LET sorted == SortVoices(voices, Marker("A"))
      fire == /\ phase /= "unmounted"
              /\ ~AlreadySpoken
              /\ Len(sorted) /= 0
              /\ Truthy(urlText)
  IN /\ availableVoices' = SetState(sorted, availableVoices)
     /\ voice' = SetState(DefaultVoiceA(sorted, LoadVoicesSeenVoice, voice), voice)
     /\ speakAzureConfig' = azureConfig
     /\ text' = IF fire THEN urlText ELSE text
     /\ textFromUrl' = IF fire THEN urlText ELSE textFromUrl
     /\ hasSpokenFromUrl' = (fire \/ hasSpokenFromUrl)
     /\ autoTimer' = IF fire
                     THEN [ on |-> TRUE, text |-> urlText, cloud |-> useAzure,
                            config |-> azureConfig, voice |-> voice' ]
                     ELSE autoTimer
     /\ last' = Did(op, 0, "", <<>>, <<>>)
     /\ UNCHANGED << loadVars, autoplayTextRef >>

\* mutant: one retry too many
RetryAllowed_OffByOne(count) == count <= maxRetries

\* B, line 690: retryCount < maxRetries
RetryAllowed(count) == count < maxRetries

\* mutant: loadVoices without its one-shot guard
AlreadyLoaded_Never == FALSE

\* B, line 697: if (voicesLoadedRef.current) return
AlreadyLoaded == voicesLoadedRef

\* B, lines 686-724 (loadVoices) and the effect on [settings.voice], lines
\* 741-750.  apText is autoplayTextRef.current and pending the number of
\* retry timers when the handler starts.
LoadVoicesB(op, voices, apText, pending) ==
  IF voices = <<>>
  THEN /\ retryCount' = IF RetryAllowed(retryCount) THEN retryCount + 1 ELSE retryCount
       /\ retryTimers' = IF RetryAllowed(retryCount) THEN pending + 1 ELSE pending
       /\ autoplayTextRef' = apText
       /\ last' = Did(op, 0, "", <<>>, <<>>)
       /\ UNCHANGED << selVars, voicesLoadedRef, voiceInitializedRef, autoTimer,
                       speakAzureConfig, textFromUrl, hasSpokenFromUrl >>
  ELSE IF AlreadyLoaded
  THEN /\ autoplayTextRef' = apText
       /\ retryTimers' = pending
       /\ last' = Did(op, 0, "", <<>>, <<>>)
       /\ UNCHANGED << selVars, voicesLoadedRef, voiceInitializedRef, retryCount,
                       autoTimer, speakAzureConfig, textFromUrl, hasSpokenFromUrl >>
  ELSE LET sorted == SortVoices(voices, Marker("B"))
           fire == /\ phase /= "unmounted"
                   /\ Truthy(apText)
                   /\ voice' /= Null
                   /\ voice' /= voice
       IN /\ voicesLoadedRef' = TRUE
          /\ availableVoices' = SetState(sorted, availableVoices)
          /\ voice' = SetState(DefaultVoiceB(sorted, voice), voice)
          /\ voiceInitializedRef' = TRUE
          /\ retryTimers' = pending
          /\ autoplayTextRef' = IF fire THEN Null ELSE apText
          /\ autoTimer' = IF fire
                          THEN [ NoTimer EXCEPT !.on = TRUE, !.text = apText,
                                                !.voice = voice' ]
                          ELSE autoTimer
          /\ last' = Did(op, 0, "", <<>>, <<>>)
          /\ UNCHANGED << retryCount, speakAzureConfig, textFromUrl,
                          hasSpokenFromUrl >>

\* the effects of the first render: B, lines 672-680 (text from the URL),
\* then the first loadVoices() of either variant (A line 242, B line 727)
Mount ==
  /\ phase = "new"
  /\ phase' = "mounted"
  /\ IF variant = "A"
     THEN LoadVoicesA("mount", dirVoices)
     ELSE /\ text' = IF Truthy(urlText) THEN urlText ELSE text
          /\ LoadVoicesB("mount", dirVoices,
                         IF Truthy(urlText) THEN urlText ELSE Null, retryTimers)
  /\ UNCHANGED << envVars, dirVoices, isPlaying, autoSpeechBlocked, useAzure,
                  azureConfig, showSettings, cloudCalls, utteranceRef, intervalOn,
                  utts, settleQ, keepQ, engine >>

\* the platform's voice list is there and it fires voiceschanged, which runs
\* loadVoices (A line 246, B line 730)
VoicesChanged ==
  /\ phase = "mounted"
  /\ dirVoices' = platformVoices
  /\ IF variant = "A"
     THEN LoadVoicesA("voiceschanged", platformVoices)
     ELSE /\ LoadVoicesB("voiceschanged", platformVoices, autoplayTextRef, retryTimers)
          /\ UNCHANGED text
  /\ UNCHANGED << envVars, phase, isPlaying, autoSpeechBlocked, useAzure,
                  azureConfig, showSettings, cloudCalls, utteranceRef, intervalOn,
                  utts, settleQ, keepQ, engine >>

\* B, line 692: a retry timer of loadVoices fires
RetryFire ==
  /\ retryTimers > 0
  /\ LoadVoicesB("retry", dirVoices, autoplayTextRef, retryTimers - 1)
  /\ UNCHANGED << envVars, phase, dirVoices, text, isPlaying, autoSpeechBlocked,
                  useAzure, azureConfig, showSettings, cloudCalls, utteranceRef,
                  intervalOn, utts, settleQ, keepQ, engine >>

(***************************************************************************)
(* The user.                                                               *)
(***************************************************************************)
\* textarea onChange (A line 595, B line 919)
ChangeText(t) ==
  /\ phase = "mounted"
  /\ t /= text
  /\ text' = t
  /\ last' = Did("setText", 0, "", <<>>, <<>>)
  /\ UNCHANGED << envVars, phase, dirVoices, selVars, loadVars, autoVars, cfgVars,
                  isPlaying, autoSpeechBlocked, textFromUrl, showSettings,
                  cloudCalls, utteranceRef, intervalOn, utts, settleQ, keepQ,
                  engine >>

\* voice <select> onChange (A lines 505-513, B lines 854-859), with B's
\* effect on [settings.voice], lines 741-750
SelectVoice(i) ==
  LET v == availableVoices[i]
      fire == /\ variant = "B"
              /\ voiceInitializedRef
              /\ Truthy(autoplayTextRef)
              /\ v /= voice
  IN /\ phase = "mounted"
     /\ v /= voice
     /\ voice' = v
     /\ speakAzureConfig' = azureConfig
     /\ autoplayTextRef' = IF fire THEN Null ELSE autoplayTextRef
     /\ autoTimer' = IF fire
                     THEN [ NoTimer EXCEPT !.on = TRUE, !.text = autoplayTextRef,
                                           !.voice = v ]
                     ELSE autoTimer
     /\ last' = Did("selectVoice", 0, "", <<>>, <<>>)
     /\ UNCHANGED << envVars, phase, dirVoices, availableVoices, loadVars,
                     hasSpokenFromUrl, useAzure, azureConfig, text, isPlaying,
                     autoSpeechBlocked, textFromUrl, showSettings, cloudCalls,
                     utteranceRef, intervalOn, utts, settleQ, keepQ, engine >>

\* handleSubmit (A lines 337-340, B lines 806-809)
Submit ==
  /\ phase = "mounted"
  /\ Speak("submit", text)
  /\ UNCHANGED << envVars, phase, dirVoices, selVars, loadVars, autoVars, cfgVars,
                  text >>

\* mutant: the play / pause button leaves Speaking without cancel()
TogglePlayPauseA_NoCancel ==
  IF isPlaying
  THEN /\ isPlaying' = FALSE
       /\ last' = Did("toggle", 0, "", text, <<>>)
       /\ UNCHANGED << engine, utts, settleQ, keepQ, showSettings, cloudCalls,
                       utteranceRef, intervalOn, autoSpeechBlocked, textFromUrl >>
  ELSE Speak("toggle", text)

\* A, lines 342-351
TogglePlayPauseA ==
  IF isPlaying
  THEN /\ engine' = IF ~useAzure THEN EngCancel(engine) ELSE engine
       /\ isPlaying' = FALSE
       /\ last' = Did("toggle", 0, "", text,
                      IF ~useAzure THEN <<"cancel">> ELSE <<>>)
       /\ UNCHANGED << utts, settleQ, keepQ, showSettings, cloudCalls,
                       utteranceRef, intervalOn, autoSpeechBlocked, textFromUrl >>
  ELSE Speak("toggle", text)

\* B, lines 811-819
TogglePlayPauseB ==
  IF isPlaying
  THEN /\ engine' = EngCancel(engine)
       /\ isPlaying' = FALSE
       /\ utteranceRef' = 0
       /\ intervalOn' = KeepAliveEffect(FALSE)
       /\ last' = Did("toggle", 0, "", text, <<"cancel">>)
       /\ UNCHANGED << utts, settleQ, keepQ, showSettings, cloudCalls,
                       autoSpeechBlocked, textFromUrl >>
  ELSE Speak("toggle", text)

\* the play / pause button
TogglePlayPause ==
  /\ phase = "mounted"
  /\ IF variant = "A" THEN TogglePlayPauseA ELSE TogglePlayPauseB
  /\ UNCHANGED << envVars, phase, dirVoices, selVars, loadVars, autoVars, cfgVars,
                  text >>

\* mutant: B's cleanup cancels without looking at utteranceRef
Unmount_Unguarded ==
  /\ phase = "mounted"
  /\ phase' = "unmounted"
  /\ IF variant = "A"
     THEN /\ engine' = EngCancel(EngCancel(engine))
          /\ last' = Did("unmount", 0, "", <<>>, <<"cancel", "cancel">>)
     ELSE /\ engine' = EngCancel(engine)
          /\ last' = Did("unmount", 0, "", <<>>, <<"cancel">>)
  /\ intervalOn' = FALSE
  /\ UNCHANGED << envVars, dirVoices, selVars, loadVars, autoVars, cfgVars, text,
                  isPlaying, autoSpeechBlocked, textFromUrl, showSettings,
                  cloudCalls, utteranceRef, utts, settleQ, keepQ >>

\* the component unmounts: A runs the cleanups of lines 249-251 and 358-363,
\* B the cleanups of lines 733-737 and 767-771
Unmount ==
  /\ phase = "mounted"
  /\ phase' = "unmounted"
  /\ IF variant = "A"
     THEN /\ engine' = EngCancel(EngCancel(engine))
          /\ last' = Did("unmount", 0, "", <<>>, <<"cancel", "cancel">>)
     ELSE /\ engine' = IF utteranceRef /= 0 THEN EngCancel(engine) ELSE engine
          /\ last' = Did("unmount", 0, "", <<>>,
                         IF utteranceRef /= 0 THEN <<"cancel">> ELSE <<>>)
  /\ intervalOn' = FALSE
  /\ UNCHANGED << envVars, dirVoices, selVars, loadVars, autoVars, cfgVars, text,
                  isPlaying, autoSpeechBlocked, textFromUrl, showSettings,
                  cloudCalls, utteranceRef, utts, settleQ, keepQ >>

(***************************************************************************)
(* The settings panel and the cloud backend (variant A).                   *)
(***************************************************************************)
\* A, line 409: the settings button
ToggleSettings ==
  /\ phase = "mounted"
  /\ variant = "A"
  /\ showSettings' = ~showSettings
  /\ last' = Did("toggleSettings", 0, "", <<>>, <<>>)
  /\ UNCHANGED << envVars, phase, dirVoices, selVars, loadVars, autoVars, cfgVars,
                  text, isPlaying, autoSpeechBlocked, textFromUrl, cloudCalls,
                  utteranceRef, intervalOn, utts, settleQ, keepQ, engine >>

\* A, lines 417 and 428: the backend buttons of the settings panel.  useAzure
\* is a dependency of speak, which is memoized again and then holds the
\* speakWithAzure of the new render.
SetUseAzure(b) ==
  /\ phase = "mounted"
  /\ variant = "A"
  /\ showSettings
  /\ b /= useAzure
  /\ useAzure' = b
  /\ speakAzureConfig' = azureConfig
  /\ last' = Did("setUseAzure", 0, "", <<>>, <<>>)
  /\ UNCHANGED << envVars, phase, dirVoices, selVars, loadVars, autoVars,
                  azureConfig, text, isPlaying, autoSpeechBlocked, textFromUrl,
                  showSettings, cloudCalls, utteranceRef, intervalOn, utts,
                  settleQ, keepQ, engine >>

\* A, lines 452-473: the key and region inputs, shown in cloud mode.
\* azureConfig is no dependency of speak: the memoized speak keeps the
\* speakWithAzure, and so the azureConfig, of an earlier render.
SetAzureConfig(field, present) ==
  /\ phase = "mounted"
  /\ variant = "A"
  /\ showSettings
  /\ useAzure
  /\ azureConfig[field] /= present
  /\ azureConfig' = [azureConfig EXCEPT ![field] = present]
  /\ last' = Did("setAzureConfig", 0, "", <<>>, <<>>)
  /\ UNCHANGED << envVars, phase, dirVoices, selVars, loadVars, autoVars, useAzure,
                  speakAzureConfig, text, isPlaying, autoSpeechBlocked,
                  textFromUrl, showSettings, cloudCalls, utteranceRef,
                  intervalOn, utts, settleQ, keepQ, engine >>

\* A, lines 313-334: speakTextAsync settles, resolved (ok) or rejected, and
\* the finally block runs
AzureSettle(ok) ==
  /\ cloudCalls > 0
  /\ cloudCalls' = cloudCalls - 1
  /\ isPlaying' = SetState(FALSE, isPlaying)
  /\ last' = Did("azureSettled", 0, IF ok THEN "" ELSE "alert-error", <<>>, <<>>)
  /\ UNCHANGED << envVars, phase, dirVoices, selVars, loadVars, autoVars, cfgVars,
                  text, autoSpeechBlocked, textFromUrl, showSettings,
                  utteranceRef, intervalOn, utts, settleQ, keepQ, engine >>

(***************************************************************************)
(* Timers.                                                                 *)
(***************************************************************************)
\* the auto-speak timer fires (A lines 287-292, B line 748) and calls the
\* speak it captured
AutoTimerFire ==
  /\ autoTimer.on
  /\ autoTimer' = NoTimer
  /\ IF variant = "A"
     THEN SpeakA("autoSpeak", autoTimer.text, TRUE,
                 [cloud |-> autoTimer.cloud, config |-> autoTimer.config])
     ELSE SpeakB("autoSpeak", autoTimer.text, TRUE, autoTimer.voice)
  /\ UNCHANGED << envVars, phase, dirVoices, selVars, loadVars, hasSpokenFromUrl,
                  autoplayTextRef, cfgVars, text >>

\* A, lines 195-203: the settle delay of the oldest pending speak call is over
SettleFire ==
  /\ settleQ /= <<>>
  /\ LET u == Head(settleQ) IN
     /\ engine' = EngSpeak(engine, u)
     /\ keepQ' = Append(keepQ, u)
     /\ settleQ' = Tail(settleQ)
     /\ last' = Did("settle", u, "", utts[u].text, <<"speak">>)
  /\ UNCHANGED << envVars, phase, dirVoices, selVars, loadVars, autoVars, cfgVars,
                  text, isPlaying, autoSpeechBlocked, textFromUrl, showSettings,
                  cloudCalls, utteranceRef, intervalOn, utts >>

\* mutant: restartSpeech reschedules itself whatever the engine reports
RestartSpeech_Always ==
  /\ keepQ /= <<>>
  /\ LET u == Head(keepQ) IN
     IF Speaking(engine)
     THEN /\ engine' = EngResume(EngPause(engine))
          /\ keepQ' = Append(Tail(keepQ), u)
          /\ last' = Did("restartSpeech", u, "", utts[u].text, <<"pause", "resume">>)
     ELSE /\ keepQ' = Append(Tail(keepQ), u)
          /\ last' = Did("restartSpeech", u, "", utts[u].text, <<>>)
          /\ UNCHANGED engine
  /\ UNCHANGED << envVars, phase, dirVoices, selVars, loadVars, autoVars, cfgVars,
                  text, isPlaying, autoSpeechBlocked, textFromUrl, showSettings,
                  cloudCalls, utteranceRef, intervalOn, utts, settleQ >>

\* A, lines 137-147: restartSpeech of the oldest pending keep-alive timer
RestartSpeech ==
  /\ keepQ /= <<>>
  /\ LET u == Head(keepQ) IN
     IF Speaking(engine)
     THEN /\ engine' = EngResume(EngPause(engine))
          /\ keepQ' = Append(Tail(keepQ), u)
          /\ last' = Did("restartSpeech", u, "", utts[u].text, <<"pause", "resume">>)
     ELSE /\ keepQ' = Tail(keepQ)
          /\ last' = Did("restartSpeech", u, "", utts[u].text, <<>>)
          /\ UNCHANGED engine
  /\ UNCHANGED << envVars, phase, dirVoices, selVars, loadVars, autoVars, cfgVars,
                  text, isPlaying, autoSpeechBlocked, textFromUrl, showSettings,
                  cloudCalls, utteranceRef, intervalOn, utts, settleQ >>

\* B, lines 757-764: a tick of the keep-alive interval
IntervalTick ==
  /\ intervalOn
  /\ IF ~Speaking(engine)
     THEN /\ intervalOn' = FALSE
          /\ last' = Did("interval", 0, "", <<>>, <<>>)
          /\ UNCHANGED engine
     ELSE /\ engine' = EngResume(EngPause(engine))
          /\ last' = Did("interval", 0, "", <<>>, <<"pause", "resume">>)
          /\ UNCHANGED intervalOn
  /\ UNCHANGED << envVars, phase, dirVoices, selVars, loadVars, autoVars, cfgVars,
                  text, isPlaying, autoSpeechBlocked, textFromUrl, showSettings,
                  cloudCalls, utteranceRef, utts, settleQ, keepQ >>

(***************************************************************************)
(* The engine's events.                                                    *)
(***************************************************************************)
eventFrame ==
  << envVars, phase, dirVoices, selVars, loadVars, autoVars, cfgVars, text,
     showSettings, cloudCalls, utts, settleQ >>

\* the engine begins to speak the utterance at the head of its queue and
\* dispatches start
EngineStart ==
  /\ engine.queue /= <<>>
  /\ ~engine.started
  /\ ~engine.paused
  /\ LET u == Head(engine.queue) IN
     /\ engine' = [engine EXCEPT !.started = TRUE]
     /\ HandleStart(u)
     /\ intervalOn' = KeepAliveEffect(isPlaying')
     /\ last' = Did("onstart", u, "", utts[u].text, <<>>)
  /\ UNCHANGED eventFrame

\* the utterance being spoken completes and the engine dispatches end
EngineEnd ==
  /\ engine.started
  /\ ~engine.paused
  /\ LET u == Head(engine.queue) IN
     /\ engine' = [engine EXCEPT !.queue = Tail(@), !.started = FALSE]
     /\ HandleEnd(u)
     /\ intervalOn' = KeepAliveEffect(isPlaying')
     /\ last' = Did("onend", u, "", utts[u].text, <<>>)
  /\ UNCHANGED eventFrame

\* the engine drops the utterance at the head of its queue with an error:
\* "not-allowed" before it began (autoplay policy), "synthesis-failed" at
\* any time
EngineError(kind) ==
  /\ engine.queue /= <<>>
  /\ kind = "not-allowed" => ~engine.started
  /\ LET u == Head(engine.queue) IN
     /\ engine' = [engine EXCEPT !.queue = Tail(@), !.started = FALSE]
     /\ HandleError(u, kind)
     /\ intervalOn' = KeepAliveEffect(isPlaying')
     /\ last' = Did("onerror", u, kind, utts[u].text, <<>>)
  /\ UNCHANGED eventFrame

\* the event loop delivers the error event of an utterance that cancel()
\* removed
DeliverEvent ==
  /\ engine.events /= <<>>
  /\ LET ev == Head(engine.events) IN
     /\ engine' = [engine EXCEPT !.events = Tail(@)]
     /\ HandleError(ev.uid, ev.error)
     /\ intervalOn' = KeepAliveEffect(isPlaying')
     /\ last' = Did("onerror", ev.uid, ev.error, utts[ev.uid].text, <<>>)
  /\ UNCHANGED eventFrame

\* the platform quirk of line 185: the engine is left paused
EnginePaused ==
  /\ ~engine.paused
  /\ engine.queue = <<>>
  /\ phase = "mounted"
  /\ engine' = EngPause(engine)
  /\ last' = Did("paused", 0, "", <<>>, <<>>)
  /\ UNCHANGED << envVars, phase, dirVoices, selVars, loadVars, autoVars, cfgVars,
                  text, isPlaying, autoSpeechBlocked, textFromUrl, showSettings,
                  cloudCalls, utteranceRef, intervalOn, utts, settleQ, keepQ >>

(***************************************************************************)
(* Specification: the local-engine path of both variants.                  *)
(***************************************************************************)
\* the voice lists the platform may have
Directories == { <<>>, << <<"a">>, <<"M", "z">> >> }

InitWith(dirs, lateB) ==
  /\ variant \in {"A", "B"}
  /\ phase = "new"
  /\ urlText \in UrlTexts
  /\ platformVoices \in dirs
  /\ dirVoices \in IF variant = "B" /\ platformVoices /= <<>> /\ ~lateB
                   THEN {platformVoices} ELSE {<<>>, platformVoices}
  /\ text = <<>>
  /\ availableVoices = <<>>
  /\ voice = Null
  /\ isPlaying = FALSE
  /\ autoSpeechBlocked = FALSE
  /\ textFromUrl = Null
  /\ hasSpokenFromUrl = FALSE
  /\ useAzure = FALSE
  /\ azureConfig = [key |-> FALSE, region |-> FALSE]
  /\ speakAzureConfig = [key |-> FALSE, region |-> FALSE]
  /\ showSettings = FALSE
  /\ cloudCalls = 0
  /\ utteranceRef = 0
  /\ voicesLoadedRef = FALSE
  /\ voiceInitializedRef = FALSE
  /\ autoplayTextRef = Null
  /\ retryCount = 0
  /\ retryTimers = 0
  /\ intervalOn = FALSE
  /\ utts = <<>>
  /\ settleQ = <<>>
  /\ keepQ = <<>>
  /\ autoTimer = NoTimer
  /\ engine = [queue |-> <<>>, started |-> FALSE, paused |-> FALSE, events |-> <<>>]
  /\ last = [ op |-> "init", uid |-> 0, err |-> "", text |-> <<>>, calls |-> <<>>,
              pre |-> Snapshot ]

\* In variant B the voices are there when the page mounts, or never come:
\* SpecVoices covers the list that arrives while loadVoices is retrying.
Init == InitWith(Directories, FALSE)

Next ==
  \/ Mount
  \/ Unmount
  \/ VoicesChanged
  \/ RetryFire
  \/ \E t \in Texts : ChangeText(t)
  \/ \E i \in 1..Len(availableVoices) : SelectVoice(i)
  \/ Submit
  \/ TogglePlayPause
  \/ AutoTimerFire
  \/ SettleFire
  \/ RestartSpeech
  \/ IntervalTick
  \/ EngineStart
  \/ EngineEnd
  \/ \E kind \in {"not-allowed", "synthesis-failed"} : EngineError(kind)
  \/ DeliverEvent
  \/ EnginePaused

Spec == Init /\ [][Next]_vars

(***************************************************************************)
(* Specification: voice loading alone, over every voice list of up to      *)
(* MaxVoices distinct names, present at mount or arriving later.           *)
(***************************************************************************)
VoiceLists ==
  UNION { { s \in [1..n -> VoiceNames] :
              \A i, j \in 1..n : i /= j => s[i] /= s[j] } : n \in 0..MaxVoices }

InitVoices == InitWith(VoiceLists, TRUE)

NextVoices ==
  \/ Mount
  \/ VoicesChanged
  \/ RetryFire
  \/ \E i \in 1..Len(availableVoices) : SelectVoice(i)

SpecVoices == InitVoices /\ [][NextVoices]_vars

(***************************************************************************)
(* Specification: variant A with its settings panel, where the user        *)
(* switches between the local engine and the cloud backend.                *)
(***************************************************************************)
\* the voices are there when the page mounts
InitCloud ==
  /\ InitWith({ << <<"a">>, <<"M", "z">> >> }, FALSE)
  /\ variant = "A"
  /\ dirVoices = platformVoices

NextCloud ==
  \/ Mount
  \/ Unmount
  \/ VoicesChanged
  \/ ToggleSettings
  \/ \E b \in BOOLEAN : SetUseAzure(b)
  \/ \E field \in {"key", "region"} : \E present \in BOOLEAN :
       SetAzureConfig(field, present)
  \/ \E ok \in BOOLEAN : AzureSettle(ok)
  \/ Submit
  \/ TogglePlayPause
  \/ AutoTimerFire
  \/ SettleFire
  \/ EngineStart
  \/ EngineEnd
  \/ \E kind \in {"not-allowed", "synthesis-failed"} : EngineError(kind)
  \/ DeliverEvent

SpecCloud == InitCloud /\ [][NextCloud]_vars

(***************************************************************************)
(* Specification with fairness: the local-engine path of both variants,    *)
(* where every pending timer fires, every event cancel() queued is         *)
(* delivered, and the engine starts the utterance at the head of its queue *)
(* and brings it to a terminal event (end or error).  The user's actions   *)
(* are not fair: the user may stop at any time.                            *)
(***************************************************************************)
EngineTerminal ==
  \/ EngineEnd
  \/ \E kind \in {"not-allowed", "synthesis-failed"} : EngineError(kind)

Fairness ==
  /\ WF_vars(AutoTimerFire)
  /\ WF_vars(SettleFire)
  /\ WF_vars(RestartSpeech)
  /\ WF_vars(IntervalTick)
  /\ WF_vars(RetryFire)
  /\ WF_vars(EngineStart)
  /\ WF_vars(EngineTerminal)
  /\ WF_vars(DeliverEvent)

SpecLive == Init /\ [][Next]_vars /\ Fairness

(***************************************************************************)
(* Properties.                                                             *)
(***************************************************************************)
EventOps == {"onstart", "onend", "onerror"}
LoadOps == {"mount", "voiceschanged", "retry"}

\* the last handler called speak (submit, the auto-speak timer, or the play
\* button while not playing)
CalledSpeak(l) ==
  \/ l.op \in {"submit", "autoSpeak"}
  \/ l.op = "toggle" /\ ~l.pre.isPlaying

\* a text that is empty or holds white space only
OnlyWhitespace(t) == \A i \in 1..Len(t) : t[i] \in Whitespace

Count(calls, c) == Cardinality({i \in 1..Len(calls) : calls[i] = c})

\* C1: while the component is mounted, the start event of a submitted
\* utterance leaves the controller Speaking (isPlaying true, not blocked) and
\* its end event leaves it Idle (isPlaying false, not blocked).
C1_StartThenEnd ==
  phase = "mounted" =>
    /\ last.op = "onstart" => isPlaying /\ ~autoSpeechBlocked
    /\ last.op = "onend" => ~isPlaying /\ ~autoSpeechBlocked

\* C1 witness: an utterance with non-blank text was started and has now ended
C1_Witness ==
  /\ phase = "mounted"
  /\ last.op = "onend"
  /\ ~OnlyWhitespace(utts[last.uid].text)
  /\ voice /= Null
  /\ ~isPlaying

\* C2: every speak call that builds an utterance issues exactly one cancel(),
\* before any submission it makes, and the utterance a settle timer submits is
\* the one of the latest speak call: an utterance that a later speak call has
\* superseded is never submitted.
C2_SupersededNeverSubmitted ==
  /\ (CalledSpeak(last) /\ last.uid /= 0) =>
        /\ Count(last.calls, "cancel") = 1
        /\ last.calls[1] = "cancel"
  /\ last.op = "settle" => last.uid = Len(utts)

\* C3: an event of an utterance that a later speak call has superseded changes
\* none of isPlaying, autoSpeechBlocked, textFromUrl, utteranceRef.
C3_StaleEventsIgnored ==
  [][ (last'.op \in EventOps /\ last'.uid < Len(utts)) =>
        UNCHANGED << isPlaying, autoSpeechBlocked, textFromUrl, utteranceRef >> ]_vars

\* C4: the engine never holds more than one utterance of the controller.
C4_AtMostOneUtterance == Len(engine.queue) <= 1

\* C5: on the local path a speak call with empty or blank text calls nothing on
\* the engine, schedules no timer and changes none of isPlaying,
\* autoSpeechBlocked, textFromUrl.
C5_BlankSpeakIsNoOp ==
  [][ (CalledSpeak(last') /\ OnlyWhitespace(last'.text) /\ ~useAzure) =>
        /\ last'.calls = <<>>
        /\ UNCHANGED << engine, utts, settleQ, keepQ, retryTimers, intervalOn,
                        isPlaying, autoSpeechBlocked, textFromUrl, utteranceRef >>
        /\ autoTimer'.on => autoTimer.on ]_vars

\* C5 witness: speak was called with a text of blanks only
C5_Witness ==
  /\ last.op = "submit"
  /\ last.text = <<" ", " ">>
  /\ last.calls = <<>>
  /\ ~useAzure

\* C6 as stated: unmounting calls cancel() exactly once.
C6_ExactlyOneCancel ==
  last.op = "unmount" => Count(last.calls, "cancel") = 1

\* C6 amended: unmounting calls cancel() twice in variant A, whatever the
\* state, and leaves the engine's queue empty; in variant B it calls cancel()
\* once when utteranceRef is set and not at all when it is null.
C6_CancelPerCleanup ==
  last.op = "unmount" =>
    IF variant = "A"
    THEN Count(last.calls, "cancel") = 2 /\ engine.queue = <<>>
    ELSE Count(last.calls, "cancel") = (IF utteranceRef /= 0 THEN 1 ELSE 0)

\* C6 witness: variant B unmounted while idle, with no cancel()
C6_Witness ==
  /\ last.op = "unmount"
  /\ variant = "B"
  /\ ~last.pre.isPlaying
  /\ utteranceRef = 0
  /\ last.calls = <<>>
  /\ utts /= <<>>

\* C7: in variant A a not-allowed error of the auto-triggered utterance leaves
\* the controller Blocked with that utterance's text retained, and the start
\* event of a manual utterance that finds the controller Blocked leaves it
\* Speaking with the flag cleared.
C7_BlockedThenRetry ==
  (variant = "A" /\ phase = "mounted") =>
    /\ (last.op = "onerror" /\ last.err = "not-allowed" /\ utts[last.uid].auto) =>
          /\ autoSpeechBlocked
          /\ ~isPlaying
          /\ textFromUrl = utts[last.uid].text
    /\ (last.op = "onstart" /\ ~utts[last.uid].auto /\ last.pre.blocked) =>
          /\ isPlaying
          /\ ~autoSpeechBlocked

\* C7 witness: the manual retry of the retained text has started while Blocked
C7_Witness ==
  /\ variant = "A"
  /\ phase = "mounted"
  /\ last.op = "onstart"
  /\ ~utts[last.uid].auto
  /\ last.pre.blocked
  /\ utts[last.uid].text = textFromUrl
  /\ utts[1].auto
  /\ isPlaying

\* C8: a keep-alive firing that finds the engine speaking issues pause() then
\* resume(), once each, and stays scheduled; one that finds it not speaking
\* issues nothing and is not rescheduled; a keep-alive is only (re)started by
\* the submission of its utterance (A) or by isPlaying turning true (B), and
\* nothing else ever calls pause().
C8_KeepAlive ==
  [][ /\ (last'.op = "restartSpeech" /\ Speaking(engine)) =>
            /\ last'.calls = <<"pause", "resume">>
            /\ \E i \in 1..Len(keepQ') : keepQ'[i] = last'.uid
      /\ (last'.op = "restartSpeech" /\ ~Speaking(engine)) =>
            /\ last'.calls = <<>>
            /\ \A i \in 1..Len(keepQ') : keepQ'[i] /= last'.uid
      /\ (last'.op = "interval" /\ Speaking(engine)) =>
            /\ last'.calls = <<"pause", "resume">>
            /\ intervalOn'
      /\ (last'.op = "interval" /\ ~Speaking(engine)) =>
            /\ last'.calls = <<>>
            /\ ~intervalOn'
      /\ \A u \in 1..Len(utts') :
            ((\E i \in 1..Len(keepQ') : keepQ'[i] = u)
               /\ (\A i \in 1..Len(keepQ) : keepQ[i] /= u))
            => (last'.op = "settle" /\ last'.uid = u)
      /\ (intervalOn' /\ ~intervalOn) => (isPlaying' /\ ~isPlaying)
      /\ Count(last'.calls, "pause") > 0 =>
            (last'.op \in {"restartSpeech", "interval"} /\ Speaking(engine)) ]_vars

\* C8 witness: restartSpeech found the engine speaking and rescheduled itself
C8_Witness ==
  /\ last.op = "restartSpeech"
  /\ last.calls = <<"pause", "resume">>
  /\ keepQ /= <<>>
  /\ keepQ[Len(keepQ)] = last.uid
  /\ isPlaying

\* the voices of a list that carry the marker, then the others, each group
\* in the order of the list
StablePartition(voices, marker) ==
  SelectSeq(voices, LAMBDA v : IsPreferred(v, marker))
    \o SelectSeq(voices, LAMBDA v : ~IsPreferred(v, marker))

\* the first voice of a list, in its own order, that carries the marker
FirstPreferredIn(voices, marker) ==
  LET I == { i \in 1..Len(voices) : IsPreferred(voices[i], marker) }
  IN IF I = {} THEN Null ELSE voices[CHOOSE i \in I : \A j \in I : i <= j]

\* C9: after loadVoices has read a non-empty enumeration, availableVoices is
\* its stable partition: marker voices first, both groups in enumeration
\* order.
C9_StablePartition ==
  (last.op \in LoadOps /\ dirVoices /= <<>>) =>
    availableVoices = StablePartition(dirVoices, Marker(variant))

\* C9 witness: [a, Mz, c, gmZ] was stored as [Mz, gmZ, a, c]
C9_Witness ==
  /\ variant = "A"
  /\ last.op \in LoadOps
  /\ dirVoices = << <<"a">>, <<"M", "z">>, <<"c">>, <<"g", "m", "Z">> >>
  /\ availableVoices = << <<"M", "z">>, <<"g", "m", "Z">>, <<"a">>, <<"c">> >>

\* C10: a loadVoices that reads a non-empty enumeration while no voice is
\* selected selects the first marker voice of the enumeration, or, when there
\* is none, the first voice of the sorted list.
C10_DefaultVoice ==
  [][ (last'.op \in LoadOps /\ dirVoices' /= <<>> /\ voice = Null) =>
        voice' = IF FirstPreferredIn(dirVoices', Marker(variant)) /= Null
                 THEN FirstPreferredIn(dirVoices', Marker(variant))
                 ELSE availableVoices'[1] ]_vars

\* C10 witness: the first load found marker voices behind an unmarked one and
\* selected the first of them; or found none and selected the first voice
C10_Witness ==
  /\ last.op = "mount"
  /\ Len(dirVoices) = MaxVoices
  /\ \/ /\ variant = "A"
        /\ dirVoices[1] = <<"m", "d">>
        /\ dirVoices[2] = <<"g", "m", "Z">>
        /\ dirVoices[3] = <<"M", "z">>
        /\ voice = <<"g", "m", "Z">>
     \/ /\ variant = "B"
        /\ dirVoices[1] = <<"c">>
        /\ dirVoices[2] = <<"M", "z">>
        /\ voice = <<"M", "z">>

\* C11: in variant A a reload of the directory (loadVoices run by a
\* voiceschanged notification) changes the selected voice only when none is
\* selected or the selected one does not carry the marker; in particular it
\* keeps a marker voice the user has just chosen.
C11_ReloadKeepsChosenVoice ==
  [][ (variant = "A" /\ last'.op = "voiceschanged") =>
        /\ voice' /= voice => (voice = Null \/ ~IsPreferred(voice, Marker("A")))
        /\ (last.op = "selectVoice" /\ IsPreferred(voice, Marker("A"))) =>
              voice' = voice ]_vars

\* C12: in variant B, once loadVoices has stored a non-empty enumeration,
\* every later run of it (retry timer or voiceschanged) changes neither the
\* voice list nor the selected voice, and schedules no auto-speak.
C12_LoadOnce ==
  [][ (variant = "B" /\ voicesLoadedRef /\ last'.op \in LoadOps) =>
        /\ UNCHANGED << availableVoices, voice, voicesLoadedRef >>
        /\ autoTimer'.on => autoTimer.on ]_vars

\* C12 witness: a retry timer that was pending when the list arrived has
\* fired after the user replaced the default voice, and the choice is kept
C12_Witness ==
  /\ variant = "B"
  /\ last.op = "retry"
  /\ voicesLoadedRef
  /\ dirVoices /= <<>>
  /\ Len(availableVoices) > 1
  /\ voice = availableVoices[2]

C14_TogglePlayPause ==
  [][ last'.op = "toggle" =>
        IF isPlaying
        THEN /\ last'.calls = IF useAzure THEN <<>> ELSE <<"cancel">>
             /\ ~isPlaying'
             /\ ~useAzure => engine'.queue = <<>>
             /\ UNCHANGED << utts, settleQ, cloudCalls >>
        ELSE /\ last'.text = text
             /\ IF ~useAzure /\ ~OnlyWhitespace(text) /\ (variant = "A" \/ voice /= Null)
                THEN /\ Len(utts') = Len(utts) + 1
                     /\ last'.uid = Len(utts')
                     /\ utts'[last'.uid].text = text
                     /\ last'.calls \in
                          IF variant = "A"
                          THEN { <<"cancel">>, <<"cancel", "resume">> }
                          ELSE { <<"cancel", "speak">> }
                ELSE /\ utts' = utts
                     /\ last'.calls = <<>>
             /\ ~useAzure => UNCHANGED isPlaying ]_vars

\* C14 witness: the button was pressed while an utterance was being spoken
C14_Witness ==
  /\ last.op = "toggle"
  /\ last.pre.isPlaying
  /\ last.calls = <<"cancel">>
  /\ ~isPlaying
  /\ engine.queue = <<>>
  /\ engine.events /= <<>>
  /\ engine.events[Len(engine.events)].error = "interrupted"

\* the user asked for speech with the speak of the current render: the form
\* was submitted, or the play button was pressed while not playing
UserSpeak(l) ==
  \/ l.op = "submit"
  \/ l.op = "toggle" /\ ~l.pre.isPlaying

\* C15: with the cloud backend selected and key and region present, a speak
\* call of the user sets isPlaying true and issues one synthesis call; when a
\* synthesis call has settled, resolved or rejected, isPlaying is false.
C15_CloudSpeaks ==
  [][ phase = "mounted" =>
        /\ (UserSpeak(last') /\ useAzure /\ ConfigOK(azureConfig)) =>
              /\ isPlaying'
              /\ cloudCalls' = cloudCalls + 1
        /\ last'.op = "azureSettled" => ~isPlaying' ]_vars

\* C16: with the cloud backend selected and the key or the region empty, a
\* speak call of the user starts no synthesis call, leaves isPlaying as it
\* was, raises the configuration alert and opens the settings panel.
C16_CloudNotConfigured ==
  [][ (phase = "mounted" /\ UserSpeak(last') /\ useAzure /\ ~ConfigOK(azureConfig)) =>
        /\ cloudCalls' = cloudCalls
        /\ UNCHANGED isPlaying
        /\ last'.err = "alert-configure"
        /\ showSettings' ]_vars

\* the utterances the engine holds
Held(e) == { e.queue[i] : i \in 1..Len(e.queue) }

\* C17: in variant A the play / pause button pressed while Speaking leaves no
\* settle-delay timer pending, so that nothing is submitted to the engine
\* before the next speak call.
C17_ToggleClearsSettle ==
  (variant = "A" /\ last.op = "toggle" /\ last.pre.isPlaying) => settleQ = <<>>

\* C18: in variant A, once the component is unmounted the engine holds no
\* utterance of the controller, whatever timers were pending at the unmount.
C18_NothingAfterUnmount ==
  (variant = "A" /\ phase = "unmounted") => engine.queue = <<>>

\* C19: in variant A at most one keep-alive timer is pending.
C19_OneKeepAlive ==
  variant = "A" => Len(keepQ) <= 1

\* C20: when a handler has taken the controller out of Speaking (isPlaying
\* was true when it started and is false now), no keep-alive is pending for
\* an utterance the engine no longer holds: in variant A every pending
\* restartSpeech timer belongs to an utterance still in the engine, in
\* variant B the interval is stopped.
C20_NoKeepAliveAfterSpeaking ==
  (last.pre.isPlaying /\ ~isPlaying) =>
    IF variant = "A"
    THEN \A i \in 1..Len(keepQ) : keepQ[i] \in Held(engine)
    ELSE ~intervalOn

\* C21: in variant A, while mounted, the error event of an utterance sets
\* isPlaying false; with the kind not-allowed it raises the blocked flag and
\* retains that utterance's text, with any other kind it leaves the flag and
\* the retained text as they were.
C21_ErrorClassification ==
  [][ (variant = "A" /\ phase = "mounted" /\ last'.op = "onerror") =>
        /\ ~isPlaying'
        /\ IF last'.err = "not-allowed"
           THEN autoSpeechBlocked' /\ textFromUrl' = utts[last'.uid].text
           ELSE UNCHANGED << autoSpeechBlocked, textFromUrl >> ]_vars

\* C21 witness: an interrupted error of an utterance whose text is not the
\* retained one arrived while the controller was Speaking
C21_Witness ==
  /\ variant = "A"
  /\ phase = "mounted"
  /\ last.op = "onerror"
  /\ last.err = "interrupted"
  /\ last.pre.isPlaying
  /\ ~isPlaying
  /\ textFromUrl /= utts[last.uid].text

\* C22: in variant A a not-allowed error of an utterance that is not the
\* auto-triggered one changes neither the blocked flag nor the retained text.
C22_OnlyAutoBlocks ==
  [][ (variant = "A" /\ last'.op = "onerror" /\ last'.err = "not-allowed"
         /\ ~utts[last'.uid].auto) =>
        UNCHANGED << autoSpeechBlocked, textFromUrl >> ]_vars

\* C23: in variant A the play button pressed while Blocked asks for the
\* retained text: the request carries textFromUrl, whatever the textbox holds.
C23_RetryRetainedText ==
  [][ (variant = "A" /\ last'.op = "toggle" /\ autoSpeechBlocked /\ ~isPlaying) =>
        /\ last'.text = textFromUrl
        /\ last'.uid /= 0 /\ utts'[last'.uid].text = textFromUrl ]_vars

\* C24: on the local path a speak call with a speakable text, made while no
\* voice is selected and the voice list is empty, calls nothing on the engine,
\* schedules no timer and leaves isPlaying as it was.
C24_NoVoiceNoSpeech ==
  [][ (CalledSpeak(last') /\ ~OnlyWhitespace(last'.text) /\ ~useAzure
         /\ voice = Null /\ availableVoices = <<>>) =>
        /\ last'.calls = <<>>
        /\ UNCHANGED << engine, utts, settleQ, keepQ, isPlaying >> ]_vars

\* C25: in variant A, while the cloud backend is selected, a speak call (from
\* the form, the play button or the auto-speak timer) and the play / pause
\* button call nothing on the local engine and schedule no settle-delay or
\* keep-alive timer.
C25_CloudLeavesEngineAlone ==
  [][ (variant = "A" /\ useAzure /\ (CalledSpeak(last') \/ last'.op = "toggle")) =>
        /\ last'.calls = <<>>
        /\ UNCHANGED << engine, utts, settleQ, keepQ >> ]_vars

\* the auto-triggered utterances created so far
AutoCount(us) == Cardinality({ i \in 1..Len(us) : us[i].auto })

\* C26: the automatic speak of the URL text happens at most once in a page
\* lifetime and only after a non-empty voice list has been stored: its timer
\* is scheduled only while none is pending, none has fired before and the
\* list is not empty, and when it fires it speaks the URL text.
C26_AutoSpeakOnce ==
  [][ /\ AutoCount(utts') <= 1
      /\ last'.op = "autoSpeak" =>
            /\ AutoCount(utts) = 0
            /\ availableVoices /= <<>>
            /\ last'.text = urlText
            /\ ~autoTimer'.on
      /\ (autoTimer'.on /\ autoTimer' /= autoTimer) =>
            /\ ~autoTimer.on
            /\ AutoCount(utts) = 0
            /\ availableVoices' /= <<>>
            /\ last.op /= "autoSpeak" ]_vars

\* C26 witness: the URL text was spoken automatically once, its utterance is
\* over, and the user has then changed the voice: nothing more was scheduled
C26_Witness ==
  /\ AutoCount(utts) = 1
  /\ utts[1].auto
  /\ last.op = "selectVoice"
  /\ ~autoTimer.on
  /\ Len(utts) = 1
  /\ engine.queue = <<>>
  /\ settleQ = <<>>

\* C27: in variant A isPlaying and autoSpeechBlocked are never both true.
C27_SpeakingXorBlocked ==
  variant = "A" => ~(isPlaying /\ autoSpeechBlocked)

\* C28: in variant B utteranceRef is set whenever the engine holds an
\* utterance of the controller.
C28_RefWhileHeld ==
  (variant = "B" /\ engine.queue /= <<>>) => utteranceRef /= 0

\* C29: in variant A, while mounted, isPlaying is true whenever a cloud
\* synthesis call has not settled.
C29_PlayingWhileCloudCall ==
  (variant = "A" /\ phase = "mounted" /\ cloudCalls > 0) => isPlaying

\* no timer of the keep-alive or of the settle delay is pending and, while
\* the component is mounted, isPlaying is false
Quiet ==
  /\ phase = "mounted" => ~isPlaying
  /\ settleQ = <<>>
  /\ keepQ = <<>>
  /\ ~intervalOn

\* C30: on the local path, when timers fire and the engine brings every
\* utterance to a terminal event, the controller eventually reaches, and from
\* then on stays in, a state with isPlaying false and no settle-delay or
\* keep-alive timer pending.
C30_EventuallyIdle == <>[]Quiet

\* C30 witness: an utterance was spoken to its end and everything is quiet
C30_Witness ==
  /\ phase = "mounted"
  /\ last.op = "onend"
  /\ last.pre.isPlaying
  /\ Quiet
  /\ engine.queue = <<>>
  /\ engine.events = <<>>
  /\ Len(utts) = MaxUtterances

====
